---- MODULE Spec2Model ----
(***************************************************************************)
(* Model of oumodulesbot: the message handlers of OUModulesBotPlugin       *)
(* (src/oumodulesbot.py) and the SPARQL / liveness helpers                 *)
(* (src/oumodulesbot/ou_sparql_utils.py).                                  *)
(*                                                                         *)
(* Strings are sequences of one-character strings, so that split(),        *)
(* upper(), replace(), isalnum(), startswith() and the regular expression  *)
(* EMBED_RE are computed as the code computes them.                        *)
(***************************************************************************)
EXTENDS Integers, Sequences, FiniteSets, TLC

VARIABLES
    embeds_cache,   \* oumodulesbot.py:17, most recently used entry first
    nextHandle,     \* the handle the chat service gives the next reply
    nEvents,        \* events handled so far
    evt,            \* the event handled last (sequential handlers)
    submitted,      \* codes passed to get_module_title by the last event
    out,            \* what the last event made the bot send
    lastTouch,      \* per trigger id, the event that last read or wrote its cache
                    \* entry (kept for events handled one after another)
    evicted,        \* trigger ids whose cache entry was evicted at some event
    tasks,          \* per-greenlet handler state (concurrent handlers)
    sent,           \* log of chat-service calls (concurrent handlers)
    rq,             \* state of one find_module_or_qualification call
    lv              \* state of one is_really_active call

vars == <<embeds_cache, nextHandle, nEvents, evt, submitted, out, lastTouch, evicted, tasks, sent, rq, lv>>

-----------------------------------------------------------------------------
(* Bounds of the model *)

MaxEvents == 4      \* events handled one after another
MaxWideEvents == 2  \* events handled one after another, over all message texts
MaxIds == 3         \* distinct trigger message ids
CacheCapacity == 2  \* capacity given to pylru.lrucache (1000 in the program)
MaxTasks == 2       \* handler greenlets alive at once
MaxBindings == 2    \* bindings in one SPARQL response
MaxRetries == 2     \* largest retries argument of is_really_active

-----------------------------------------------------------------------------
(* Characters and Python string methods *)

LOWER == <<"a","b","c","d","e","f","g","h","i","j","k","l","m",
           "n","o","p","q","r","s","t","u","v","w","x","y","z">>
UPPER == <<"A","B","C","D","E","F","G","H","I","J","K","L","M",
           "N","O","P","Q","R","S","T","U","V","W","X","Y","Z">>
DIGITS == {"0","1","2","3","4","5","6","7","8","9"}

Range(s) == {s[i] : i \in DOMAIN s}

IsLetter(c) == c \in Range(LOWER) \cup Range(UPPER)
IsDigit(c) == c \in DIGITS
IsSpace(c) == c = " "

UpperChar(c) ==
    IF c \in Range(LOWER)
    THEN UPPER[CHOOSE i \in DOMAIN LOWER : LOWER[i] = c]
    ELSE c

LowerChar(c) ==
    IF c \in Range(UPPER)
    THEN LOWER[CHOOSE i \in DOMAIN UPPER : UPPER[i] = c]
    ELSE c

\* str.upper()
Upper(s) == [i \in DOMAIN s |-> UpperChar(s[i])]

\* str.lower()
Lower(s) == [i \in DOMAIN s |-> LowerChar(s[i])]

\* str.replace(c, '')
RemoveChar(s, c) == SelectSeq(s, LAMBDA x : x # c)

\* str.isalnum(): non-empty and every character a letter or a digit
IsAlnum(s) == Len(s) > 0 /\ \A i \in DOMAIN s : IsLetter(s[i]) \/ IsDigit(s[i])

\* str.startswith(p)
StartsWith(s, p) == Len(s) >= Len(p) /\ SubSeq(s, 1, Len(p)) = p

\* sub in s
Contains(s, sub) ==
    \E i \in 0..(Len(s) - Len(sub)) : SubSeq(s, i + 1, i + Len(sub)) = sub

\* seq[:n]
Take(s, n) == SubSeq(s, 1, IF Len(s) < n THEN Len(s) ELSE n)

\* seq[n:]
Drop(s, n) == SubSeq(s, n + 1, Len(s))

\* str.split(): the maximal runs of non-whitespace characters, in order
RECURSIVE SplitFrom(_, _, _)
SplitFrom(s, i, word) ==
    IF i > Len(s)
    THEN IF word = <<>> THEN <<>> ELSE <<word>>
    ELSE IF IsSpace(s[i])
         THEN (IF word = <<>> THEN <<>> ELSE <<word>>) \o SplitFrom(s, i + 1, <<>>)
         ELSE SplitFrom(s, i + 1, Append(word, s[i]))

Split(s) == SplitFrom(s, 1, <<>>)

\* number of consecutive letters of s from position i on
RECURSIVE LetterRun(_, _)
LetterRun(s, i) ==
    IF i > Len(s) \/ ~IsLetter(s[i]) THEN 0 ELSE 1 + LetterRun(s, i + 1)

\* number of consecutive digits of s from position i on
RECURSIVE DigitRun(_, _)
DigitRun(s, i) ==
    IF i > Len(s) \/ ~IsDigit(s[i]) THEN 0 ELSE 1 + DigitRun(s, i + 1)

Min(a, b) == IF a < b THEN a ELSE b

\* EMBED_RE.findall: leftmost, non-overlapping matches of
\* ![a-zA-Z]{1,3}[0-9]{1,3}.  Letters and digits are disjoint, so a match at
\* a '!' needs a run of 1 to 3 letters ended by a digit; digits are greedy.
RECURSIVE FindAllFrom(_, _)
FindAllFrom(s, i) ==
    IF i > Len(s) THEN <<>>
    ELSE IF s[i] # "!" THEN FindAllFrom(s, i + 1)
    ELSE LET nl == LetterRun(s, i + 1)
             nd == Min(3, DigitRun(s, i + 1 + nl))
         IN  IF nl >= 1 /\ nl <= 3 /\ nd >= 1
             THEN <<SubSeq(s, i, i + nl + nd)>> \o FindAllFrom(s, i + nl + nd + 1)
             ELSE FindAllFrom(s, i + 1)

EMBED_RE_findall(s) == FindAllFrom(s, 1)

COMMAND_NAME == <<"m","o","d","u","l","e","n","a","m","e">>
MODULES_COUNT_LIMIT == 5


-----------------------------------------------------------------------------
(* Message texts and the archive the handlers are run against *)

Sp == <<" ">>
Bang == <<"!">>
CMD == Bang \o COMMAND_NAME
A123 == <<"A","1","2","3">>
A012 == <<"A","0","1","2">>
a012 == <<"a","0","1","2">>
B31 == <<"B","3","1">>
Foo == <<"f","o","o">>
And == <<"a","n","d">>
Bad1 == <<"x","x">>
Bad2 == <<"y","-","y">>
Cn(n) == <<"C","0","0",n>>

Messages ==
    { <<>>,
      Foo \o Sp \o Bang \o A123,
      Bang \o A123 \o Sp \o And \o Sp \o Bang \o A012,
      Bang \o A123 \o Sp \o Bang \o A123,
      Bang \o B31 \o Sp \o Bang \o a012,
      Bang \o Cn("1") \o Bang \o Cn("2") \o Bang \o Cn("3") \o Bang \o Cn("4")
           \o Bang \o Cn("5") \o Bang \o Cn("6"),
      CMD \o Sp \o A123,
      CMD \o Sp \o Bad1,
      CMD \o Sp \o Bad1 \o Sp \o Bad2,
      CMD \o Sp \o Bang \o a012 \o Sp \o A123 \o Sp \o B31,
      CMD \o Sp \o Bad1 \o Sp \o Cn("1") \o Sp \o Cn("2") \o Sp \o Cn("3")
          \o Sp \o Cn("4") \o Sp \o Cn("5") }

\* The message texts used in long runs of events
FewMessages ==
    { Foo \o Sp \o Bang \o A123,
      Bang \o A123 \o Sp \o And \o Sp \o Bang \o A012,
      CMD \o Sp \o A123,
      CMD \o Sp \o Bad1 }

\* The archive site as one event sees it: unreachable, or serving a page
\* with a title for the codes in known (looked up case-insensitively).
Archives ==
    { [down |-> TRUE, known |-> {}] } \cup
    { [down |-> FALSE, known |-> k] :
        k \in {{}, {A123}, {A123, A012, B31, Cn("1"), Cn("2")}} }

\* The title the archive page of a code carries
TitleOf(code) == <<"T","-">> \o Upper(code)

\* get_module_title: the title, or <<>> for None (only its truth is used)
get_module_title(code, archive) ==
    IF archive.down THEN <<>>
    ELSE IF Upper(code) \in archive.known THEN TitleOf(code)
    ELSE <<>>

\* The loop of command_modulename over codes[:MODULES_COUNT_LIMIT]
RECURSIVE CommandLoop(_, _, _)
CommandLoop(codes, archive, acc) ==
    IF codes = <<>> THEN acc
    ELSE LET code == RemoveChar(Upper(Head(codes)), "!")
             valid == IsAlnum(code) /\ 4 <= Len(code) /\ Len(code) <= 6
             title == get_module_title(code, archive)
         IN  CommandLoop(Tail(codes), archive,
                IF ~valid THEN acc
                ELSE [submitted |-> Append(acc.submitted, code),
                      modules |-> IF title # <<>>
                                  THEN Append(acc.modules, [code |-> code, title |-> title])
                                  ELSE acc.modules,
                      any_found |-> acc.any_found \/ title # <<>>])

\* command_modulename up to its call of post_modules
command_modulename(content, archive) ==
    LET codes == Drop(Split(content), 1)
        r == CommandLoop(Take(codes, MODULES_COUNT_LIMIT), archive,
                         [submitted |-> <<>>, modules |-> <<>>, any_found |-> FALSE])
    IN  [mode |-> "command", submitted |-> r.submitted, modules |-> r.modules,
         post |-> r.any_found \/ Len(codes) = 1]

\* The loop of do_embeds over EMBED_RE.findall(content)[:MODULES_COUNT_LIMIT]
RECURSIVE EmbedLoop(_, _, _)
EmbedLoop(found, archive, acc) ==
    IF found = <<>> THEN acc
    ELSE LET code == Drop(Head(found), 1)
             title == get_module_title(code, archive)
         IN  EmbedLoop(Tail(found), archive,
                [submitted |-> Append(acc.submitted, code),
                 modules |-> IF title # <<>>
                             THEN Append(acc.modules, [code |-> Upper(code), title |-> title])
                             ELSE acc.modules,
                 any_found |-> acc.any_found \/ title # <<>>])

Silent == [mode |-> "none", submitted |-> <<>>, modules |-> <<>>, post |-> FALSE]

\* do_embeds up to its call of post_modules
do_embeds(content, archive) ==
    IF content = <<>> THEN Silent
    ELSE IF StartsWith(content, CMD) THEN command_modulename(content, archive)
    ELSE LET r == EmbedLoop(Take(EMBED_RE_findall(content), MODULES_COUNT_LIMIT), archive,
                            [submitted |-> <<>>, modules |-> <<>>, any_found |-> FALSE])
         IN  [mode |-> "inline", submitted |-> r.submitted, modules |-> r.modules,
              post |-> r.any_found]

\* on_message_update up to the call of post_modules
on_message_update(content, archive) ==
    IF content = <<>> THEN Silent
    ELSE IF StartsWith(content, CMD) THEN command_modulename(content, archive)
    ELSE do_embeds(content, archive)

\* on_message_create up to the call of post_modules
on_message_create(content, archive) == do_embeds(content, archive)

-----------------------------------------------------------------------------
(* embeds_cache: pylru.lrucache, a sequence with the most recent entry first *)

LruIndex(cache, key) == CHOOSE i \in DOMAIN cache : cache[i].key = key

\* key in cache (does not change the order)
LruContains(cache, key) == \E i \in DOMAIN cache : cache[i].key = key

\* the value of cache[key]
LruValue(cache, key) == cache[LruIndex(cache, key)]

RemoveAt(s, i) == SubSeq(s, 1, i - 1) \o SubSeq(s, i + 1, Len(s))

\* a cache whose reads do not refresh an entry (first in, first out)
LruTouchNoRefresh(cache, key) == cache

\* the order after reading cache[key]: the entry becomes the most recent
LruTouch(cache, key) ==
    LET i == LruIndex(cache, key) IN <<cache[i]>> \o RemoveAt(cache, i)

\* cache[key] = value: an update in place, or an insertion that evicts the
\* least recently used entry when the cache is full
LruSet(cache, entry) ==
    IF LruContains(cache, entry.key)
    THEN <<entry>> \o RemoveAt(cache, LruIndex(cache, entry.key))
    ELSE IF Len(cache) >= CacheCapacity
         THEN <<entry>> \o SubSeq(cache, 1, CacheCapacity - 1)
         ELSE <<entry>> \o cache

-----------------------------------------------------------------------------
(* post_modules *)

NoOut == [kind |-> "none", channel |-> "-", handle |-> 0, content |-> <<>>, fields |-> <<>>]

\* embed.add_field(name=code, value=' * {} '.format(title), inline=True)
FieldOf(m) == [name |-> m.code, value |-> <<" ","*"," ">> \o m.title \o <<" ">>, inline |-> TRUE]

\* an embed that loses its last field
EmbedFieldsDropLast(modules) ==
    IF Len(modules) > 1
    THEN [i \in 1..(Len(modules) - 1) |-> FieldOf(modules[i])]
    ELSE <<>>

\* the fields of the embed post_modules builds
EmbedFields(modules) ==
    IF Len(modules) > 1 THEN [i \in DOMAIN modules |-> FieldOf(modules[i])] ELSE <<>>

\* the content post_modules builds; modules[0] of an empty list raises
Content(modules) ==
    IF Len(modules) > 1 THEN <<>>
    ELSE modules[1].code \o <<":"," ">> \o modules[1].title

\* a post_modules that never looks for a prior reply
post_modules_always_reply(cache, handle, e, modules) ==
    IF Len(modules) = 0
    THEN [cache |-> cache, handle |-> handle, touched |-> FALSE,
          out |-> [NoOut EXCEPT !.kind = "IndexError"]]
    ELSE [cache |-> LruSet(cache, [key |-> e.id, channel |-> e.channel, handle |-> handle]),
          handle |-> handle + 1, touched |-> TRUE,
          out |-> [kind |-> "reply", channel |-> e.channel, handle |-> handle,
                   content |-> Content(modules), fields |-> EmbedFields(modules)]]

\* post_modules(event, reply_to, modules): the cache, the handle counter and
\* the chat-service call that result
post_modules(cache, handle, e, modules) ==
    LET has == LruContains(cache, e.id)
        prior == LruValue(cache, e.id)
        read == IF has THEN LruTouch(cache, e.id) ELSE cache
    IN  IF Len(modules) = 0
        THEN [cache |-> read, handle |-> handle, touched |-> has,
              out |-> [NoOut EXCEPT !.kind = "IndexError"]]
        ELSE IF has
        THEN [cache |-> read, handle |-> handle, touched |-> TRUE,
              out |-> [kind |-> "edit", channel |-> prior.channel, handle |-> prior.handle,
                       content |-> Content(modules), fields |-> EmbedFields(modules)]]
        ELSE [cache |-> LruSet(read, [key |-> e.id, channel |-> e.channel, handle |-> handle]),
              handle |-> handle + 1, touched |-> TRUE,
              out |-> [kind |-> "reply", channel |-> e.channel, handle |-> handle,
                       content |-> Content(modules), fields |-> EmbedFields(modules)]]

-----------------------------------------------------------------------------
(* Events handled one after another: each handler runs to its end *)

Ids == 1..MaxIds

\* the channel a trigger message was written in
ChannelOf(id) == IF id % 2 = 1 THEN "c1" ELSE "c2"

IdleTasks == [t \in 1..MaxTasks |-> [pc |-> "idle"]]
IdleRq == [pc |-> "idle"]
IdleLv == [pc |-> "idle"]

\* what each handler does with each message against each archive, up to
\* its call of post_modules
CreateResult == [c \in Messages, a \in Archives |-> on_message_create(c, a)]
UpdateResult == [c \in Messages, a \in Archives |-> on_message_update(c, a)]

Keys(cache) == {cache[i].key : i \in DOMAIN cache}

\* one event handled from its arrival to the handler's return
Handle(kind, id, content, archive, limit) ==
    LET e == [kind |-> kind, id |-> id, channel |-> ChannelOf(id), content |-> content,
              archive |-> archive]
        r == IF kind = "MessageCreate"
             THEN CreateResult[content, archive]
             ELSE UpdateResult[content, archive]
        pm == post_modules(embeds_cache, nextHandle, e, r.modules)
    IN  /\ nEvents < limit
        /\ nEvents' = nEvents + 1
        /\ evt' = e
        /\ submitted' = r.submitted
        /\ IF r.post
           THEN /\ embeds_cache' = pm.cache
                /\ nextHandle' = pm.handle
                /\ out' = pm.out
                /\ lastTouch' = IF pm.touched
                                THEN [lastTouch EXCEPT ![id] = nEvents + 1]
                                ELSE lastTouch
                /\ evicted' = evicted \cup (Keys(embeds_cache) \ Keys(pm.cache))
           ELSE /\ out' = NoOut
                /\ UNCHANGED <<embeds_cache, nextHandle, lastTouch, evicted>>
        /\ UNCHANGED <<tasks, sent, rq, lv>>

MessageCreate ==
    \E id \in Ids, content \in FewMessages, archive \in Archives :
        Handle("MessageCreate", id, content, archive, MaxEvents)

MessageUpdate ==
    \E id \in Ids, content \in FewMessages, archive \in Archives :
        Handle("MessageUpdate", id, content, archive, MaxEvents)

\* the same handlers over every message text of the model
AnyMessageCreate ==
    \E id \in Ids, content \in Messages, archive \in Archives :
        Handle("MessageCreate", id, content, archive, MaxWideEvents)

AnyMessageUpdate ==
    \E id \in Ids, content \in Messages, archive \in Archives :
        Handle("MessageUpdate", id, content, archive, MaxWideEvents)

NoArchive == [down |-> TRUE, known |-> {}]
NoEvt == [kind |-> "none", id |-> 0, channel |-> "-", content |-> <<>>, archive |-> NoArchive]

Init ==
    /\ embeds_cache = <<>>
    /\ nextHandle = 1
    /\ nEvents = 0
    /\ evt = NoEvt
    /\ submitted = <<>>
    /\ out = NoOut
    /\ lastTouch = [id \in Ids |-> 0]
    /\ evicted = {}
    /\ tasks = IdleTasks
    /\ sent = <<>>
    /\ rq = IdleRq
    /\ lv = IdleLv

Next == MessageCreate \/ MessageUpdate

Spec == Init /\ [][Next]_vars

NextWide == AnyMessageCreate \/ AnyMessageUpdate

SpecWide == Init /\ [][NextWide]_vars

-----------------------------------------------------------------------------
(* Events handled by greenlets (monkey.patch_all): a handler runs until it *)
(* waits for the network, and other handlers run while it waits            *)

Tasks == 1..MaxTasks

TaskMessages ==
    { Foo \o Sp \o Bang \o A123,
      Bang \o A123 \o Sp \o And \o Sp \o Bang \o A012 }

TaskArchives ==
    { [down |-> FALSE, known |-> {}], [down |-> FALSE, known |-> {A123, A012}] }

\* post_modules from its first line to its chat-service call: the lookup of
\* a prior reply, the embed, and the request sent (the reply exists at the
\* service from here on; its handle is recorded when the call returns)
PostStart(t, e, r) ==
    LET has == LruContains(embeds_cache, e.id)
        prior == LruValue(embeds_cache, e.id)
    IN  /\ embeds_cache' = IF has THEN LruTouch(embeds_cache, e.id) ELSE embeds_cache
        /\ IF Len(r.modules) = 0
           THEN /\ tasks' = [tasks EXCEPT ![t] = [pc |-> "done"]]
                /\ UNCHANGED <<sent, nextHandle>>
           ELSE IF has
           THEN /\ tasks' = [tasks EXCEPT ![t] = [pc |-> "modify", e |-> e]]
                /\ sent' = Append(sent, [op |-> "edit", id |-> e.id, handle |-> prior.handle])
                /\ UNCHANGED nextHandle
           ELSE /\ tasks' = [tasks EXCEPT ![t] = [pc |-> "reply", e |-> e, handle |-> nextHandle]]
                /\ sent' = Append(sent, [op |-> "reply", id |-> e.id, handle |-> nextHandle])
                /\ nextHandle' = nextHandle + 1

\* the handler after its last archive fetch: post_modules or nothing
AfterFetches(t, e, r) ==
    IF r.post
    THEN PostStart(t, e, r)
    ELSE /\ tasks' = [tasks EXCEPT ![t] = [pc |-> "done"]]
         /\ UNCHANGED <<embeds_cache, sent, nextHandle>>

\* an event arrives and its handler runs up to its first network call
Spawn(t) ==
    /\ tasks[t].pc = "idle"
    /\ \E kind \in {"MessageCreate", "MessageUpdate"}, id \in Ids,
          content \in TaskMessages, archive \in TaskArchives :
        LET e == [kind |-> kind, id |-> id, channel |-> ChannelOf(id),
                  content |-> content, archive |-> archive]
            r == IF kind = "MessageCreate"
                 THEN on_message_create(content, archive)
                 ELSE on_message_update(content, archive)
        IN  IF r.submitted = <<>>
            THEN AfterFetches(t, e, r)
            ELSE /\ tasks' = [tasks EXCEPT ![t] = [pc |-> "fetch", e |-> e, r |-> r, i |-> 1]]
                 /\ UNCHANGED <<embeds_cache, sent, nextHandle>>
    /\ UNCHANGED <<nEvents, evt, submitted, out, lastTouch, evicted, rq, lv>>

\* requests.get of get_module_title returns; the loop goes on to the next
\* code, or the handler goes on to post_modules
FetchReturn(t) ==
    /\ tasks[t].pc = "fetch"
    /\ IF tasks[t].i < Len(tasks[t].r.submitted)
       THEN /\ tasks' = [tasks EXCEPT ![t].i = @ + 1]
            /\ UNCHANGED <<embeds_cache, sent, nextHandle>>
       ELSE AfterFetches(t, tasks[t].e, tasks[t].r)
    /\ UNCHANGED <<nEvents, evt, submitted, out, lastTouch, evicted, rq, lv>>

\* reply_to.reply returns: embeds_cache[reply_to.id] = (event.channel, reply)
ReplyReturn(t) ==
    /\ tasks[t].pc = "reply"
    /\ embeds_cache' = LruSet(embeds_cache,
                              [key |-> tasks[t].e.id, channel |-> tasks[t].e.channel,
                               handle |-> tasks[t].handle])
    /\ evicted' = evicted \cup (Keys(embeds_cache) \ Keys(embeds_cache'))
    /\ tasks' = [tasks EXCEPT ![t] = [pc |-> "done"]]
    /\ UNCHANGED <<nextHandle, nEvents, evt, submitted, out, lastTouch, sent, rq, lv>>

\* channels_messages_modify returns
ModifyReturn(t) ==
    /\ tasks[t].pc = "modify"
    /\ tasks' = [tasks EXCEPT ![t] = [pc |-> "done"]]
    /\ UNCHANGED <<embeds_cache, nextHandle, nEvents, evt, submitted, out, lastTouch,
                   evicted, sent, rq, lv>>

NextTasks ==
    \E t \in Tasks : Spawn(t) \/ FetchReturn(t) \/ ReplyReturn(t) \/ ModifyReturn(t)

SpecTasks == Init /\ [][NextTasks]_vars

-----------------------------------------------------------------------------
(* find_module_or_qualification and the SPARQL queries under it *)

\* sequences over S of length at most n
SeqsUpTo(S, n) == UNION {[1..k -> S] : k \in 0..n}

\* One binding of a response: with title and url, with a title only (the
\* old-courses graph selects no url), without a title, or with a variable
\* that has no "value" key.
BindingKinds == {"full", "nourl", "notitle", "novalue"}

\* What the endpoint does with one GET: the transport fails, or it answers
\* with something that is not JSON, JSON without results.bindings, or bindings.
Responses ==
    { [transport |-> t, json |-> "-", bindings |-> <<>>] :
        t \in {"ReadTimeout", "ConnectError"} } \cup
    { [transport |-> "ok", json |-> j, bindings |-> <<>>] : j \in {"invalid", "nokey"} } \cup
    { [transport |-> "ok", json |-> "ok", bindings |-> b] :
        b \in SeqsUpTo(BindingKinds, MaxBindings) }

\* the loop over bindings: rows are appended until one raises
RECURSIVE ParseBindings(_, _, _)
ParseBindings(graph, bindings, i) ==
    IF i > Len(bindings) \/ bindings[i] = "novalue" THEN <<>>
    ELSE <<[graph |-> graph, pos |-> i,
            hasTitle |-> bindings[i] # "notitle",
            hasUrl |-> bindings[i] \in {"full", "notitle"}]>>
         \o ParseBindings(graph, bindings, i + 1)

\* query_data_open_ac_uk: only httpx.ReadTimeout is caught around the GET;
\* every exception of the parsing is caught and the rows read so far returned
query_data_open_ac_uk(graph, resp) ==
    IF resp.transport = "ReadTimeout" THEN [raised |-> "", retval |-> <<>>]
    ELSE IF resp.transport # "ok" THEN [raised |-> resp.transport, retval |-> <<>>]
    ELSE IF resp.json # "ok" THEN [raised |-> "", retval |-> <<>>]
    ELSE [raised |-> "", retval |-> ParseBindings(graph, resp.bindings, 1)]

\* a query_xcri that puts the qualifications first
query_xcri_swapped(courses, qualifications) == qualifications \o courses

\* query_xcri: return courses + qualifications
query_xcri(courses, qualifications) == courses \o qualifications

NoResult == [kind |-> "pending", code |-> <<>>, graph |-> "-", pos |-> 0, hasUrl |-> FALSE]

\* Result(code, result["title"], result.get("url")) of the first row; a row
\* without title raises KeyError
FirstResult(code, rows) ==
    IF rows[1].hasTitle
    THEN [kind |-> "Result", code |-> code, graph |-> rows[1].graph, pos |-> rows[1].pos,
          hasUrl |-> rows[1].hasUrl]
    ELSE [NoResult EXCEPT !.kind = "KeyError"]

Codes == {A123, a012}

StartRq(code) ==
    [pc |-> "courses", code |-> Upper(code), log |-> <<>>, courses |-> <<>>,
     results_xcri |-> <<>>, result |-> NoResult]

LogEntry(graph, resp, r) ==
    [graph |-> graph, resp |-> resp, raised |-> r.raised, retval |-> r.retval]

\* query_xcri, first await: the courses query
QueryCourses ==
    /\ rq.pc = "courses"
    /\ \E resp \in Responses :
        LET r == query_data_open_ac_uk("courses", resp) IN
        rq' = IF r.raised # ""
              THEN [rq EXCEPT !.pc = "done", !.log = Append(@, LogEntry("courses", resp, r)),
                              !.result = [NoResult EXCEPT !.kind = r.raised]]
              ELSE [rq EXCEPT !.pc = "qualifications",
                              !.log = Append(@, LogEntry("courses", resp, r)),
                              !.courses = r.retval]
    /\ UNCHANGED <<embeds_cache, nextHandle, nEvents, evt, submitted, out, lastTouch,
                   evicted, tasks, sent, lv>>

\* query_xcri, second await: the qualifications query, then the test of
\* results_xcri in find_module_or_qualification
QueryQualifications ==
    /\ rq.pc = "qualifications"
    /\ \E resp \in Responses :
        LET r == query_data_open_ac_uk("qualifications", resp)
            rows == query_xcri(rq.courses, r.retval)
            log == Append(rq.log, LogEntry("qualifications", resp, r))
        IN
        rq' = IF r.raised # ""
              THEN [rq EXCEPT !.pc = "done", !.log = log,
                              !.result = [NoResult EXCEPT !.kind = r.raised]]
              ELSE IF rows # <<>>
              THEN [rq EXCEPT !.pc = "done", !.log = log, !.results_xcri = rows,
                              !.result = FirstResult(rq.code, rows)]
              ELSE [rq EXCEPT !.pc = "oldcourses", !.log = log]
    /\ UNCHANGED <<embeds_cache, nextHandle, nEvents, evt, submitted, out, lastTouch,
                   evicted, tasks, sent, lv>>

\* query_oldcourses and the end of find_module_or_qualification
QueryOldcourses ==
    /\ rq.pc = "oldcourses"
    /\ \E resp \in Responses :
        LET r == query_data_open_ac_uk("oldcourses", resp)
            log == Append(rq.log, LogEntry("oldcourses", resp, r))
        IN
        rq' = IF r.raised # ""
              THEN [rq EXCEPT !.pc = "done", !.log = log,
                              !.result = [NoResult EXCEPT !.kind = r.raised]]
              ELSE IF r.retval # <<>>
              THEN [rq EXCEPT !.pc = "done", !.log = log,
                              !.result = FirstResult(rq.code, r.retval)]
              ELSE [rq EXCEPT !.pc = "done", !.log = log,
                              !.result = [NoResult EXCEPT !.kind = "None"]]
    /\ UNCHANGED <<embeds_cache, nextHandle, nEvents, evt, submitted, out, lastTouch,
                   evicted, tasks, sent, lv>>

InitResolver ==
    /\ embeds_cache = <<>>
    /\ nextHandle = 1
    /\ nEvents = 0
    /\ evt = NoEvt
    /\ submitted = <<>>
    /\ out = NoOut
    /\ lastTouch = [id \in Ids |-> 0]
    /\ evicted = {}
    /\ tasks = IdleTasks
    /\ sent = <<>>
    /\ rq \in {StartRq(code) : code \in Codes}
    /\ lv = IdleLv

NextResolver == QueryCourses \/ QueryQualifications \/ QueryOldcourses

SpecResolver == InitResolver /\ [][NextResolver]_vars

-----------------------------------------------------------------------------
(* is_really_active *)

UrlNone == "None"
Urls == {UrlNone, "", "http://www.open.ac.uk/courses/modules/a012"}

\* the final URL and the status of a HEAD that did not fail
HeadResponses ==
    { [url |-> u, status_code |-> st] :
        u \in { <<"m","/","a","0","1","2">>, <<"m","/","A","1","2","3">>, <<"h","o","m","e">> },
        st \in {200, 404} }

\* a check that takes every url as given
NotUrlNever(url) == FALSE

\* not url
NotUrl(url) == url = UrlNone \/ url = ""

\* a retry test that stops one attempt early
RetryAgainEarly(retry_num, retries) == retry_num < retries

\* retry_num <= retries
RetryAgain(retry_num, retries) == retry_num <= retries

\* correct_redirect and result.status_code == 200
ReallyActive(resp, code) ==
    Contains(Lower(resp.url), Lower(code)) /\ resp.status_code = 200

BoolStr(b) == IF b THEN "True" ELSE "False"

\* the record of one HTTP attempt
FailedAttempt == [outcome |-> "failed", url |-> <<>>, status_code |-> 0]
AnsweredAttempt(resp, code) ==
    [outcome |-> BoolStr(ReallyActive(resp, code)), url |-> resp.url,
     status_code |-> resp.status_code]

StartLv(url, code, retries) ==
    [pc |-> "call", url |-> url, code |-> code, retries |-> retries, retry_num |-> 0,
     attempts |-> <<>>, result |-> "pending"]

\* the entry of is_really_active (the first call and every recursive one):
\* None for no url, else on to the sleep and the HEAD
Enter ==
    /\ lv.pc = "call"
    /\ lv' = IF NotUrl(lv.url)
             THEN [lv EXCEPT !.pc = "done", !.result = "None"]
             ELSE [lv EXCEPT !.pc = "head"]
    /\ UNCHANGED <<embeds_cache, nextHandle, nEvents, evt, submitted, out, lastTouch,
                   evicted, tasks, sent, rq>>

\* httpx.head raises: retry by a recursive call, or give up with False
HeadFails ==
    /\ lv.pc = "head"
    /\ lv' = IF RetryAgain(lv.retry_num + 1, lv.retries)
             THEN [lv EXCEPT !.pc = "call", !.retry_num = @ + 1,
                             !.attempts = Append(@, FailedAttempt)]
             ELSE [lv EXCEPT !.pc = "done", !.retry_num = @ + 1,
                             !.attempts = Append(@, FailedAttempt), !.result = "False"]
    /\ UNCHANGED <<embeds_cache, nextHandle, nEvents, evt, submitted, out, lastTouch,
                   evicted, tasks, sent, rq>>

\* httpx.head returns: the else branch
HeadAnswers ==
    /\ lv.pc = "head"
    /\ \E resp \in HeadResponses :
        lv' = [lv EXCEPT !.pc = "done",
                         !.attempts = Append(@, AnsweredAttempt(resp, lv.code)),
                         !.result = BoolStr(ReallyActive(resp, lv.code))]
    /\ UNCHANGED <<embeds_cache, nextHandle, nEvents, evt, submitted, out, lastTouch,
                   evicted, tasks, sent, rq>>

InitLiveness ==
    /\ embeds_cache = <<>>
    /\ nextHandle = 1
    /\ nEvents = 0
    /\ evt = NoEvt
    /\ submitted = <<>>
    /\ out = NoOut
    /\ lastTouch = [id \in Ids |-> 0]
    /\ evicted = {}
    /\ tasks = IdleTasks
    /\ sent = <<>>
    /\ rq = IdleRq
    /\ lv \in {StartLv(url, code, retries) :
                 url \in Urls, code \in Codes, retries \in 0..MaxRetries}

NextLiveness == Enter \/ HeadFails \/ HeadAnswers

SpecLiveness == InitLiveness /\ [][NextLiveness]_vars

-----------------------------------------------------------------------------
(* Properties of the handlers *)

\* the archive has a title for the code
Resolves(code, archive) == get_module_title(code, archive) # <<>>

\* the codes of the last event that resolved, in the order submitted
ResolvedCodes == SelectSeq(submitted, LAMBDA c : Resolves(c, evt.archive))

\* the record the cache holds for a trigger id
RecordOf(cache, id) == CHOOSE r \in Range(cache) : r.key = id

Posted(o) == o.kind \in {"reply", "edit"}

\* C1: an event that resolves at least one module edits the recorded reply
\* of its trigger message when there is one, creating no reply, and otherwise
\* creates a reply and records (channel, reply handle) under the trigger id.
C1_EditRecordedElseReply ==
    [][ (nEvents' = nEvents + 1
         /\ \E i \in DOMAIN submitted' : Resolves(submitted'[i], evt'.archive))
        => IF evt'.id \in Keys(embeds_cache)
           THEN /\ out'.kind = "edit"
                /\ out'.handle = RecordOf(embeds_cache, evt'.id).handle
                /\ out'.channel = RecordOf(embeds_cache, evt'.id).channel
                /\ nextHandle' = nextHandle
                /\ RecordOf(embeds_cache', evt'.id) = RecordOf(embeds_cache, evt'.id)
           ELSE /\ out'.kind = "reply"
                /\ out'.handle = nextHandle
                /\ nextHandle' = nextHandle + 1
                /\ evt'.id \in Keys(embeds_cache')
                /\ RecordOf(embeds_cache', evt'.id) =
                     [key |-> evt'.id, channel |-> evt'.channel, handle |-> out'.handle]
      ]_vars

\* an edited trigger message whose earlier reply is recorded had that reply edited
C1_Witness ==
    /\ evt.kind = "MessageUpdate"
    /\ out.kind = "edit"
    /\ nextHandle = 2
    /\ RecordOf(embeds_cache, evt.id).handle = out.handle

CommandMode(content) == StartsWith(content, CMD)

\* the raw tokens that follow the command
RawTokens(content) == Drop(Split(content), 1)

\* C2: in command mode with no module resolved, exactly one raw token still
\* gets a reply ("not found"), two or more tokens get nothing.
C2_SingleTokenGetsNotFoundReply ==
    (nEvents > 0 /\ CommandMode(evt.content) /\ ResolvedCodes = <<>>)
    => /\ Len(RawTokens(evt.content)) = 1 => Posted(out)
       /\ Len(RawTokens(evt.content)) >= 2 => out.kind = "none"

\* the first occurrences of a sequence, in order
RECURSIVE Dedupe(_)
Dedupe(s) ==
    IF s = <<>> THEN <<>>
    ELSE <<Head(s)>> \o Dedupe(SelectSeq(Tail(s), LAMBDA x : x # Head(s)))

UpperAll(codes) == [i \in DOMAIN codes |-> Upper(codes[i])]

\* the valid candidate codes of a message, normalized, in order of occurrence
Candidates(content) ==
    IF CommandMode(content)
    THEN SelectSeq([i \in DOMAIN RawTokens(content) |->
                        RemoveChar(Upper(RawTokens(content)[i]), "!")],
                   LAMBDA c : IsAlnum(c) /\ 4 <= Len(c) /\ Len(c) <= 6)
    ELSE [i \in DOMAIN EMBED_RE_findall(content) |->
              Upper(Drop(EMBED_RE_findall(content)[i], 1))]

\* C6: the codes submitted to resolution are the first 5 valid candidate
\* codes of the message, in order of first occurrence, none twice.
C6_FirstFiveDistinctCandidates ==
    nEvents > 0 =>
        UpperAll(submitted) = Take(Dedupe(Candidates(evt.content)), MODULES_COUNT_LIMIT)

\* a message outside command mode with two or more inline mentions
InlineMulti ==
    /\ nEvents > 0
    /\ evt.content # <<>>
    /\ ~CommandMode(evt.content)
    /\ Len(EMBED_RE_findall(evt.content)) >= 2

\* C7 as stated: one reply or edit with one structured field per code, in
\* mention order, when at least one mention resolves; nothing otherwise.
C7_FieldPerCode ==
    InlineMulti =>
        IF ResolvedCodes # <<>>
        THEN /\ Posted(out)
             /\ Len(out.fields) = Len(submitted)
             /\ \A i \in DOMAIN submitted : out.fields[i].name = Upper(submitted[i])
        ELSE out.kind = "none"

\* C7 amended: one reply or edit when at least one mention resolves; with two
\* or more resolved mentions it holds one structured field per resolved
\* mention, in mention order, and no text; with exactly one it is the text
\* "CODE: title" without fields; nothing when no mention resolves.
C7_FieldPerResolvedCode ==
    InlineMulti =>
        IF ResolvedCodes = <<>> THEN out.kind = "none"
        ELSE /\ Posted(out)
             /\ IF Len(ResolvedCodes) >= 2
                THEN /\ out.content = <<>>
                     /\ Len(out.fields) = Len(ResolvedCodes)
                     /\ \A i \in DOMAIN ResolvedCodes :
                          /\ out.fields[i].name = Upper(ResolvedCodes[i])
                          /\ out.fields[i].value =
                               <<" ","*"," ">> \o TitleOf(ResolvedCodes[i]) \o <<" ">>
                          /\ out.fields[i].inline
                ELSE /\ out.fields = <<>>
                     /\ out.content = Upper(ResolvedCodes[1]) \o <<":"," ">>
                                        \o TitleOf(ResolvedCodes[1])

\* two inline mentions that both resolved were answered by one reply with two fields
C7_Witness ==
    /\ InlineMulti
    /\ Len(ResolvedCodes) = 2
    /\ out.kind = "reply"
    /\ Len(out.fields) = 2

\* C8: the cache never tracks more than CacheCapacity trigger ids; a reply
\* recorded for a new id in a full cache evicts exactly the id touched least
\* recently; an event for an evicted id that resolves creates a new reply.
C8_BoundedLruEviction ==
    [][ nEvents' = nEvents + 1 =>
        /\ Len(embeds_cache') <= CacheCapacity
        /\ Cardinality(Keys(embeds_cache')) = Len(embeds_cache')
        /\ IF evt'.id \notin Keys(embeds_cache) /\ evt'.id \in Keys(embeds_cache')
           THEN IF Cardinality(Keys(embeds_cache)) = CacheCapacity
                THEN \E k \in Keys(embeds_cache) :
                        /\ \A j \in Keys(embeds_cache) : lastTouch[k] <= lastTouch[j]
                        /\ Keys(embeds_cache') = (Keys(embeds_cache) \ {k}) \cup {evt'.id}
                ELSE Keys(embeds_cache') = Keys(embeds_cache) \cup {evt'.id}
           ELSE Keys(embeds_cache') = Keys(embeds_cache)
        /\ (/\ evt'.id \in evicted
            /\ evt'.id \notin Keys(embeds_cache)
            /\ \E i \in DOMAIN submitted' : Resolves(submitted'[i], evt'.archive))
           => out'.kind = "reply" /\ nextHandle' = nextHandle + 1
      ]_vars

\* an id evicted from a full cache got a new reply at a later event
C8_Witness ==
    /\ evt.id \in evicted
    /\ out.kind = "reply"
    /\ Len(embeds_cache) = CacheCapacity
    /\ nextHandle > CacheCapacity + 2

-----------------------------------------------------------------------------
(* Properties of find_module_or_qualification *)

\* the response is a transport failure or is malformed
Failed(resp) ==
    \/ resp.transport # "ok"
    \/ resp.json # "ok"
    \/ \E i \in DOMAIN resp.bindings : resp.bindings[i] = "novalue"

\* C3: every query returns an empty result for a transport failure or a
\* malformed response and never raises, and find_module_or_qualification
\* never raises to its caller.
C3_QueriesNeverRaise ==
    /\ \A i \in DOMAIN rq.log :
          /\ rq.log[i].raised = ""
          /\ Failed(rq.log[i].resp) => rq.log[i].retval = <<>>
    /\ rq.pc = "done" => rq.result.kind \in {"Result", "None"}

\* the rows the query of a graph returned, <<>> when it was not issued
Rows(graph) ==
    IF \E i \in DOMAIN rq.log : rq.log[i].graph = graph
    THEN rq.log[CHOOSE i \in DOMAIN rq.log : rq.log[i].graph = graph].retval
    ELSE <<>>

Issued(graph) == \E i \in DOMAIN rq.log : rq.log[i].graph = graph

\* C5: courses win over qualifications, a structured hit is returned with
\* no legacy query issued, the legacy query is issued only when both
\* structured queries are empty, and None is returned only when all three
\* are empty.
C5_CoursesThenQualificationsThenOld ==
    /\ Issued("oldcourses") =>
          Issued("courses") /\ Issued("qualifications")
             /\ Rows("courses") = <<>> /\ Rows("qualifications") = <<>>
    /\ rq.pc = "done" /\ rq.result.kind \in {"Result", "None"} =>
          /\ Rows("courses") # <<>> =>
                /\ rq.result.kind = "Result"
                /\ rq.result.graph = "courses" /\ rq.result.pos = 1
                /\ ~Issued("oldcourses")
          /\ Rows("courses") = <<>> /\ Rows("qualifications") # <<>> =>
                /\ rq.result.kind = "Result"
                /\ rq.result.graph = "qualifications" /\ rq.result.pos = 1
                /\ ~Issued("oldcourses")
          /\ Rows("courses") = <<>> /\ Rows("qualifications") = <<>> =>
                /\ Issued("oldcourses")
                /\ Rows("oldcourses") # <<>> =>
                      rq.result.kind = "Result" /\ rq.result.graph = "oldcourses"
          /\ rq.result.kind = "None" <=>
                /\ Rows("courses") = <<>>
                /\ Rows("qualifications") = <<>>
                /\ Rows("oldcourses") = <<>>

\* both structured queries returned rows and the course was returned
C5_Witness ==
    /\ rq.pc = "done"
    /\ Rows("courses") # <<>>
    /\ Rows("qualifications") # <<>>
    /\ rq.result.kind = "Result"
    /\ rq.result.graph = "courses"

-----------------------------------------------------------------------------
(* Properties of is_really_active *)

AllFailed(attempts) == \A i \in DOMAIN attempts : attempts[i].outcome = "failed"

\* C4: for a url that is not null, at most retries+1 HTTP attempts are made
\* and the call has ended after them; the result is that of the first
\* attempt that did not fail, and False once retries+1 attempts have failed.
C4_BoundedRetries ==
    lv.pc # "idle" /\ lv.url # UrlNone =>
        /\ Len(lv.attempts) <= lv.retries + 1
        /\ Len(lv.attempts) = lv.retries + 1 => lv.pc = "done"
        /\ AllFailed(SubSeq(lv.attempts, 1, Len(lv.attempts) - 1))
        /\ lv.pc = "done" /\ lv.attempts # <<>> =>
              IF lv.attempts[Len(lv.attempts)].outcome = "failed"
              THEN Len(lv.attempts) = lv.retries + 1 /\ lv.result = "False"
              ELSE lv.result = lv.attempts[Len(lv.attempts)].outcome
        /\ lv.pc # "done" => AllFailed(lv.attempts) /\ lv.result = "pending"

\* with retries = 2, two failed attempts and then an answer gave the answer
C4_Witness ==
    /\ lv.pc = "done"
    /\ lv.retries = 2
    /\ Len(lv.attempts) = 3
    /\ lv.attempts[1].outcome = "failed"
    /\ lv.attempts[2].outcome = "failed"
    /\ lv.attempts[3].outcome = "True"
    /\ lv.result = "True"

\* C9: without a url (None or empty) the call returns None and makes no
\* HTTP request, whatever the code and the retries.
C9_NoUrlNoRequest ==
    lv.pc # "idle" /\ (lv.url = UrlNone \/ lv.url = "") =>
        /\ lv.attempts = <<>>
        /\ lv.pc \in {"call", "done"}
        /\ lv.pc = "done" => lv.result = "None"

\* a call without url has returned None
C9_Witness ==
    /\ lv.pc = "done"
    /\ lv.url = UrlNone
    /\ lv.result = "None"
    /\ lv.attempts = <<>>

-----------------------------------------------------------------------------
(* Properties of interleaved handlers *)

RepliesTo(id) == {i \in DOMAIN sent : sent[i].op = "reply" /\ sent[i].id = id}

\* C10: handlers that interleave at their network calls create at most one
\* reply for a trigger id whose record is not evicted.
C10_OneReplyPerTrigger ==
    \A id \in Ids : id \notin evicted => Cardinality(RepliesTo(id)) <= 1

====
